---------------------------- MODULE Spec2Model ----------------------------
(***************************************************************************)
(* Model of the value decoding engine of the firebirdsql driver            *)
(* (xsqlvar.go): the type catalogs, ioLength, scantype, _parseDate,        *)
(* _parseTime, _parseTimezone, the parse* helpers, parseString and value.  *)
(*                                                                         *)
(* Integers wider than the model checker's own are kept as big-endian      *)
(* two's-complement byte sequences of WideBytes bytes; a Go int16, int32   *)
(* or int64 is such a sequence wrapped to its width (Wrap), so that an     *)
(* overflowing multiplication wraps exactly as the Go code does.           *)
(***************************************************************************)
EXTENDS Integers, Sequences, FiniteSets, TLC

VARIABLES x, raw_value, timezone, charset, pc, ret, stdout

vars == <<x, raw_value, timezone, charset, pc, ret, stdout>>

---------------------------------------------------------------------------
(* Bounds of the model *)

\* width, in bytes, of the model's unbounded integers (big.Int and the
\* mathematical values the claims speak of)
WideBytes == 24
\* scales are drawn from -MaxScale .. MaxScale
MaxScale == 2
\* wire days are drawn from windows of this half-width around DayCenters
DayWindow == 150
\* wire times are drawn from windows of this half-width around TimeCenters
TimeWindow == 60
\* FLOAT and DOUBLE buffers are drawn with up to this many bytes too many
MaxExtra == 2
\* declared lengths (sqllen) are drawn from 0 .. MaxLen
MaxLen == 3

---------------------------------------------------------------------------
(* Type codes *)

SQL_TYPE_TEXT == 452
SQL_TYPE_VARYING == 448
SQL_TYPE_SHORT == 500
SQL_TYPE_LONG == 496
SQL_TYPE_FLOAT == 482
SQL_TYPE_DOUBLE == 480
SQL_TYPE_D_FLOAT == 530
SQL_TYPE_TIMESTAMP == 510
SQL_TYPE_BLOB == 520
SQL_TYPE_ARRAY == 540
SQL_TYPE_QUAD == 550
SQL_TYPE_TIME == 560
SQL_TYPE_DATE == 570
SQL_TYPE_INT64 == 580
SQL_TYPE_INT128 == 32752
SQL_TYPE_TIMESTAMP_TZ == 32754
SQL_TYPE_TIME_TZ == 32756
SQL_TYPE_DEC_FIXED == 32758
SQL_TYPE_DEC64 == 32760
SQL_TYPE_DEC128 == 32762
SQL_TYPE_BOOLEAN == 32764
SQL_TYPE_NULL == 32766

\* the keys of xsqlvarTypeLength: the codes the catalog knows
CatalogTypes ==
    { SQL_TYPE_TEXT, SQL_TYPE_VARYING, SQL_TYPE_SHORT, SQL_TYPE_LONG,
      SQL_TYPE_FLOAT, SQL_TYPE_TIME, SQL_TYPE_DATE, SQL_TYPE_DOUBLE,
      SQL_TYPE_TIMESTAMP, SQL_TYPE_BLOB, SQL_TYPE_ARRAY, SQL_TYPE_QUAD,
      SQL_TYPE_INT64, SQL_TYPE_INT128, SQL_TYPE_TIMESTAMP_TZ,
      SQL_TYPE_TIME_TZ, SQL_TYPE_DEC64, SQL_TYPE_DEC128, SQL_TYPE_DEC_FIXED,
      SQL_TYPE_BOOLEAN }

\* a Go map read: the entry, or the zero value for a key the map lacks
xsqlvarTypeLength(t) ==
    CASE t \in {SQL_TYPE_TEXT, SQL_TYPE_VARYING} -> -1
      [] t \in {SQL_TYPE_SHORT, SQL_TYPE_LONG, SQL_TYPE_FLOAT, SQL_TYPE_TIME,
                SQL_TYPE_DATE} -> 4
      [] t \in {SQL_TYPE_DOUBLE, SQL_TYPE_TIMESTAMP, SQL_TYPE_BLOB,
                SQL_TYPE_ARRAY, SQL_TYPE_QUAD, SQL_TYPE_INT64,
                SQL_TYPE_DEC64} -> 8
      [] t \in {SQL_TYPE_INT128, SQL_TYPE_DEC128, SQL_TYPE_DEC_FIXED} -> 16
      [] t = SQL_TYPE_TIMESTAMP_TZ -> 10
      [] t = SQL_TYPE_TIME_TZ -> 6
      [] t = SQL_TYPE_BOOLEAN -> 1
      [] OTHER -> 0

---------------------------------------------------------------------------
(* Byte-sequence integers *)

RECURSIVE Reverse(_)
Reverse(s) == IF s = <<>> THEN <<>> ELSE Reverse(Tail(s)) \o <<Head(s)>>

RECURSIVE Zeros(_)
Zeros(n) == IF n <= 0 THEN <<>> ELSE <<0>> \o Zeros(n - 1)

RECURSIVE Fill(_, _)
Fill(n, b) == IF n <= 0 THEN <<>> ELSE <<b>> \o Fill(n - 1, b)

\* the last n bytes of s (n <= Len(s))
LastBytes(s, n) == SubSeq(s, Len(s) - n + 1, Len(s))

IsNegative(s) == s # <<>> /\ s[1] >= 128

\* a big-endian two's-complement integer of Len(s) bytes, as a wide integer
SignExtend(s) == Fill(WideBytes - Len(s), IF IsNegative(s) THEN 255 ELSE 0) \o s

\* the conversion of a wide integer to a Go integer of w bytes, as a wide
\* integer again: the low w bytes, sign-extended
Wrap(a, w) == SignExtend(LastBytes(a, w))

RECURSIVE AddLE(_, _, _)
AddLE(a, b, carry) ==
    IF a = <<>> THEN <<>>
    ELSE LET t == Head(a) + Head(b) + carry
         IN  <<t % 256>> \o AddLE(Tail(a), Tail(b), t \div 256)

\* a + b modulo 2^(8 * WideBytes)
WideAdd(a, b) == Reverse(AddLE(Reverse(a), Reverse(b), 0))

RECURSIVE MulLE(_, _, _)
MulLE(a, k, carry) ==
    IF a = <<>> THEN <<>>
    ELSE LET t == Head(a) * k + carry
         IN  <<t % 256>> \o MulLE(Tail(a), k, t \div 256)

\* a * k for a small natural k, modulo 2^(8 * WideBytes)
WideMulSmall(a, k) == Reverse(MulLE(Reverse(a), k, 0))

RECURSIVE WideMulPow10(_, _)
\* a * 10^n, n >= 0
WideMulPow10(a, n) == IF n <= 0 THEN a ELSE WideMulPow10(WideMulSmall(a, 10), n - 1)

\* a << 64
WideLsh64(a) == LastBytes(a, WideBytes - 8) \o Zeros(8)

WideZero == Zeros(WideBytes)

\* a small natural number as a wide integer
RECURSIVE NatBytesLE(_, _)
NatBytesLE(n, w) == IF w <= 0 THEN <<>> ELSE <<n % 256>> \o NatBytesLE(n \div 256, w - 1)

WideOfNat(n) == Reverse(NatBytesLE(n, WideBytes))

\* the big-endian two's-complement encoding, in 4 bytes, of an integer
\* -2^31 <= n < 2^31 (how the server writes a 32-bit field)
Int32Bytes(n) ==
    IF n >= 0 THEN Reverse(NatBytesLE(n, 4))
    ELSE LET m == -(n + 1)  \* 0 <= m < 2^31; the encoding is the complement of m
             b == Reverse(NatBytesLE(m, 4))
         IN  [i \in 1 .. 4 |-> 255 - b[i]]


\* a Go int that fits the model checker's integers, as a wide integer
WideOfInt(n) ==
    IF n >= 0 THEN WideOfNat(n)
    ELSE LET b == WideOfNat(-(n + 1)) IN [i \in 1 .. WideBytes |-> 255 - b[i]]

\* Go's integer division and remainder truncate toward zero (b > 0): the
\* floor, plus one for a negative dividend that b does not divide
Quo(a, b) == IF a >= 0 \/ a % b = 0 THEN a \div b ELSE (a \div b) + 1

Rem(a, b) == a - b * Quo(a, b)

---------------------------------------------------------------------------
(* The wire readers and the collaborators xsqlvar.go calls *)

\* bytes_to_bint32: the first 4 bytes as a big-endian signed 32-bit integer
bytes_to_bint32(b) ==
    (IF b[1] >= 128 THEN b[1] - 256 ELSE b[1]) * 16777216
        + b[2] * 65536 + b[3] * 256 + b[4]

\* bytes_to_bint64: the first 8 bytes as a big-endian signed 64-bit integer
bytes_to_bint64(b) == SignExtend(SubSeq(b, 1, 8))

\* bytes_to_bint16: the first 2 bytes as a big-endian signed 16-bit integer
bytes_to_bint16(b) == (IF b[1] >= 128 THEN b[1] - 256 ELSE b[1]) * 256 + b[2]

\* int16(i32): the low 16 bits, signed
ToInt16(n) == LET m == n % 65536 IN IF m >= 32768 THEN m - 65536 ELSE m

\* the Timezone ID Table: the wire IDs it has an entry for
TimezoneIDs == {-1, -2, 100}

\* getTimezoneNameByID: the name the table holds, "" for an ID it lacks.
\* ID 100 stands for an entry whose name the host's zone database lacks.
getTimezoneNameByID(id) ==
    CASE id = -1 -> "GMT"
      [] id = -2 -> "Asia/Tokyo"
      [] id = 100 -> "Mars/Olympus"
      [] OTHER -> ""

\* the zone names the host's zone database can load
HostZones == {"GMT", "Asia/Tokyo", "UTC"}

\* time.LoadLocation: UTC for "", the zone for a name the host knows, and
\* (nil, error) for any other name
LoadLocation(name) ==
    IF name = "" THEN [loc |-> "UTC", err |-> FALSE]
    ELSE IF name \in HostZones THEN [loc |-> name, err |-> FALSE]
    ELSE [loc |-> "nil", err |-> TRUE]

\* time.Date: the time of the given fields in loc; it panics on a nil loc.
\* The fields are kept as given.
Date(year, month, day, h, m, s, n, loc) ==
    IF loc = "nil"
    THEN [panic |-> TRUE, t |-> <<>>]
    ELSE [panic |-> FALSE, t |-> <<year, month, day, h, m, s, n, loc>>]

\* binary.Read of one fixed-size value of w bytes from a reader over b:
\* io.EOF on an empty reader, io.ErrUnexpectedEOF on a short one, and
\* otherwise the first w bytes, whatever follows them
binaryRead(b, w) ==
    IF Len(b) = 0 THEN [err |-> "EOF", bits |-> Zeros(w)]
    ELSE IF Len(b) < w THEN [err |-> "ErrUnexpectedEOF", bits |-> Zeros(w)]
    ELSE [err |-> "nil", bits |-> SubSeq(b, 1, w)]

---------------------------------------------------------------------------
(* xSQLVAR *)

\* ioLength with VARYING handled as TEXT is
ioLengthTextFamily(d) ==
    IF d.sqltype = SQL_TYPE_TEXT \/ d.sqltype = SQL_TYPE_VARYING
    THEN d.sqllen
    ELSE xsqlvarTypeLength(d.sqltype)

ioLength(d) ==
    IF d.sqltype = SQL_TYPE_TEXT
    THEN d.sqllen
    ELSE xsqlvarTypeLength(d.sqltype)

\* scantype: the kind of Go value the column reports
scantype(d) ==
    CASE d.sqltype \in {SQL_TYPE_TEXT, SQL_TYPE_VARYING} -> "string"
      [] d.sqltype = SQL_TYPE_SHORT ->
            IF d.sqlscale # 0 THEN "decimal" ELSE "int16"
      [] d.sqltype = SQL_TYPE_LONG ->
            IF d.sqlscale # 0 THEN "decimal" ELSE "int32"
      [] d.sqltype = SQL_TYPE_INT64 ->
            IF d.sqlscale # 0 THEN "decimal" ELSE "int64"
      [] d.sqltype = SQL_TYPE_INT128 -> "bigint"
      [] d.sqltype \in {SQL_TYPE_DATE, SQL_TYPE_TIME, SQL_TYPE_TIMESTAMP,
                        SQL_TYPE_TIMESTAMP_TZ, SQL_TYPE_TIME_TZ} -> "time"
      [] d.sqltype = SQL_TYPE_FLOAT -> "float32"
      [] d.sqltype = SQL_TYPE_DOUBLE -> "float64"
      [] d.sqltype = SQL_TYPE_BOOLEAN -> "bool"
      [] d.sqltype = SQL_TYPE_BLOB -> "bytes"
      [] d.sqltype \in {SQL_TYPE_DEC64, SQL_TYPE_DEC128,
                        SQL_TYPE_DEC_FIXED} -> "decimal"
      [] OTHER -> "nil"

\* _parseTimezone: two lines on standard output, then the zone of the wire
\* ID, with the loader's error dropped
_parseTimezone(b) ==
    LET name == getTimezoneNameByID(bytes_to_bint16(b))
    IN  [loc |-> LoadLocation(name).loc,
         out |-> << <<"_parseTimezone">>, b >>]

\* _parseDate with the offset one day short
_parseDateOffByOne(b) ==
    LET nday0 == bytes_to_bint32(b) + 678881
        century == Quo(4 * nday0 - 1, 146097)
        nday1 == 4 * nday0 - 1 - 146097 * century
        day0 == Quo(nday1, 4)
        nday2 == Quo(4 * day0 + 3, 1461)
        day1 == 4 * day0 + 3 - 1461 * nday2
        day2 == Quo(day1 + 4, 4)
        month0 == Quo(5 * day2 - 3, 153)
        day3 == 5 * day2 - 3 - 153 * month0
        day4 == Quo(day3 + 5, 5)
        year == 100 * century + nday2
    IN  IF month0 < 10
        THEN <<year, month0 + 3, day4>>
        ELSE <<year + 1, month0 - 9, day4>>

\* _parseDate: <<year, month, day>> of a wire day
_parseDate(b) ==
    LET nday0 == bytes_to_bint32(b) + 678882
        century == Quo(4 * nday0 - 1, 146097)
        nday1 == 4 * nday0 - 1 - 146097 * century
        day0 == Quo(nday1, 4)
        nday2 == Quo(4 * day0 + 3, 1461)
        day1 == 4 * day0 + 3 - 1461 * nday2
        day2 == Quo(day1 + 4, 4)
        month0 == Quo(5 * day2 - 3, 153)
        day3 == 5 * day2 - 3 - 153 * month0
        day4 == Quo(day3 + 5, 5)
        year == 100 * century + nday2
    IN  IF month0 < 10
        THEN <<year, month0 + 3, day4>>
        ELSE <<year + 1, month0 - 9, day4>>

\* _parseTime: <<hours, minutes, seconds, nanoseconds>> of a wire time
_parseTime(b) ==
    LET n == bytes_to_bint32(b)
        s == Quo(n, 10000)
        m == Quo(s, 60)
        h == Quo(m, 60)
    IN  <<h, Rem(m, 60), Rem(s, 60), Rem(n, 10000) * 100000>>

\* tz := time.Local; if timezone != "" { tz, _ = time.LoadLocation(timezone) }
sessionLocation(tzname) ==
    IF tzname # "" THEN LoadLocation(tzname).loc ELSE "Local"

parseDate(b, tzname) ==
    LET d == _parseDate(b)
    IN  Date(d[1], d[2], d[3], 0, 0, 0, 0, sessionLocation(tzname))

parseTime(b, tzname) ==
    LET t == _parseTime(b)
    IN  Date(0, 1, 1, t[1], t[2], t[3], t[4], sessionLocation(tzname))

parseTimestamp(b, tzname) ==
    LET d == _parseDate(SubSeq(b, 1, 4))
        t == _parseTime(SubSeq(b, 5, Len(b)))
    IN  Date(d[1], d[2], d[3], t[1], t[2], t[3], t[4], sessionLocation(tzname))

parseTimeTz(b) ==
    LET t == _parseTime(SubSeq(b, 1, 4))
        tz == _parseTimezone(SubSeq(b, 5, Len(b)))
    IN  [res |-> Date(0, 1, 1, t[1], t[2], t[3], t[4], tz.loc), out |-> tz.out]

parseTimestampTz(b) ==
    LET d == _parseDate(SubSeq(b, 1, 4))
        t == _parseTime(SubSeq(b, 5, 8))
        tz == _parseTimezone(SubSeq(b, 9, Len(b)))
    IN  [res |-> Date(d[1], d[2], d[3], t[1], t[2], t[3], t[4], tz.loc),
         out |-> tz.out]

---------------------------------------------------------------------------
(* Decoded values: a kind and its content *)

Val(kind, val) == [kind |-> kind, val |-> val]

Nil == Val("nil", <<>>)

\* what a call returns: (v, err), whether it panicked instead of returning,
\* and the lines it wrote to standard output
Returned(v, err, out) == [v |-> v, err |-> err, panic |-> FALSE, out |-> out]

Panicked(out) == [v |-> Nil, err |-> "nil", panic |-> TRUE, out |-> out]

\* v = <a time.Date call>, which may panic
ReturnedTime(d, out) ==
    IF d.panic THEN Panicked(out) ELSE Returned(Val("time", d.t), "nil", out)

\* the decoder parseString uses for a session character set; "" where it
\* has no case for the name
charsetDecoder(cs) ==
    CASE cs = "SJIS_0208" -> "japanese.ShiftJIS"
      [] cs = "EUCJ_0208" -> "japanese.EUCJP"
      [] cs = "ISO8859_1" -> "charmap.ISO8859_1"
      [] cs = "ISO8859_2" -> "charmap.ISO8859_2"
      [] cs = "ISO8859_3" -> "charmap.ISO8859_3"
      [] cs = "ISO8859_4" -> "charmap.ISO8859_5"
      [] cs = "ISO8859_5" -> "charmap.ISO8859_5"
      [] cs = "ISO8859_6" -> "charmap.ISO8859_6"
      [] cs = "ISO8859_7" -> "charmap.ISO8859_7"
      [] cs = "ISO8859_8" -> "charmap.ISO8859_8"
      [] cs = "ISO8859_9" -> "charmap.ISO8859_9"
      [] cs = "ISO8859_13" -> "charmap.ISO8859_13"
      [] cs = "KSC_5601" -> "korean.EUCKR"
      [] cs = "WIN1250" -> "charmap.Windows1250"
      [] cs = "WIN1251" -> "charmap.Windows1251"
      [] cs \in {"WIN1252", "WIN1253", "WIN1254"} -> "charmap.Windows1252"
      [] cs = "BIG_5" -> "traditionalchinese.Big5"
      [] cs = "GB_2312" -> "simplifiedchinese.HZGB2312"
      [] cs = "WIN1255" -> "charmap.Windows1255"
      [] cs = "WIN1256" -> "charmap.Windows1256"
      [] cs = "WIN1257" -> "charmap.Windows1257"
      [] cs = "KOI8R" -> "charmap.KOI8R"
      [] cs = "KOI8U" -> "charmap.KOI8U"
      [] cs = "WIN1258" -> "charmap.Windows1258"
      [] OTHER -> ""

\* parseString: the raw bytes for OCTETS and for every subtype but 0, and
\* otherwise a string: the bytes as they are (UTF8, UNICODE_FSS and the
\* names without a case) or the output of the character set's decoder
parseString(d, b, cs) ==
    IF d.sqlsubtype = 1 THEN Val("bytes", b)
    ELSE IF d.sqlsubtype = 0
    THEN IF cs = "OCTETS" THEN Val("bytes", b)
         ELSE IF charsetDecoder(cs) = "" THEN Val("string", <<"utf8", b>>)
         ELSE Val("string", <<charsetDecoder(cs), b>>)
    ELSE Val("bytes", b)

\* a * int64(math.Pow10(scale)) before any wrapping: math.Pow10 of a
\* negative scale is below 1 and converts to 0 (scale <= 18)
TimesPow10Int64(a, scale) ==
    IF scale < 0 THEN WideZero ELSE WideMulPow10(a, scale)

\* decimal.New(value, exp)
decimalNew(value, exp) == Val("decimal", <<"New", value, exp>>)

\* the SHORT, LONG and INT64 cases share their shape: i is the integer read,
\* kind the kind of the unscaled value
scaledInteger(i, kind, scale) ==
    IF scale > 0 THEN Val("int64", Wrap(TimesPow10Int64(i, scale), 8))
    ELSE IF scale < 0 THEN decimalNew(i, scale)
    ELSE Val(kind, i)

\* the INT128 case: both halves are read as signed 64-bit integers
valueInt128(d, b) ==
    LET high == WideLsh64(bytes_to_bint64(SubSeq(b, 1, 8)))
        low == bytes_to_bint64(SubSeq(b, 9, Len(b)))
    IN  Val("bigint", TimesPow10Int64(WideAdd(high, low), d.sqlscale))

\* the FLOAT and DOUBLE cases with binary.Read's error dropped
valueFloatNoError(d, b) ==
    LET w == IF d.sqltype = SQL_TYPE_FLOAT THEN 4 ELSE 8
        kind == IF d.sqltype = SQL_TYPE_FLOAT THEN "float32" ELSE "float64"
    IN  Returned(Val(kind, binaryRead(b, w).bits), "nil", <<>>)

\* the FLOAT and DOUBLE cases: err is binary.Read's, v the variable read into
valueFloat(d, b) ==
    LET w == IF d.sqltype = SQL_TYPE_FLOAT THEN 4 ELSE 8
        kind == IF d.sqltype = SQL_TYPE_FLOAT THEN "float32" ELSE "float64"
        r == binaryRead(b, w)
    IN  Returned(Val(kind, r.bits), r.err, <<>>)

\* value: no case for a type code leaves (v, err) = (nil, nil)
value(d, b, tzname, cs) ==
    CASE d.sqltype \in {SQL_TYPE_TEXT, SQL_TYPE_VARYING} ->
            Returned(IF d.sqlsubtype = 1 THEN Val("bytes", b)
                     ELSE parseString(d, b, cs), "nil", <<>>)
      [] d.sqltype = SQL_TYPE_SHORT ->
            Returned(scaledInteger(WideOfInt(ToInt16(bytes_to_bint32(b))),
                                   "int16", d.sqlscale), "nil", <<>>)
      [] d.sqltype = SQL_TYPE_LONG ->
            Returned(scaledInteger(WideOfInt(bytes_to_bint32(b)),
                                   "int32", d.sqlscale), "nil", <<>>)
      [] d.sqltype = SQL_TYPE_INT64 ->
            Returned(scaledInteger(bytes_to_bint64(b), "int64", d.sqlscale),
                     "nil", <<>>)
      [] d.sqltype = SQL_TYPE_INT128 -> Returned(valueInt128(d, b), "nil", <<>>)
      [] d.sqltype = SQL_TYPE_DATE -> ReturnedTime(parseDate(b, tzname), <<>>)
      [] d.sqltype = SQL_TYPE_TIME -> ReturnedTime(parseTime(b, tzname), <<>>)
      [] d.sqltype = SQL_TYPE_TIMESTAMP ->
            ReturnedTime(parseTimestamp(b, tzname), <<>>)
      [] d.sqltype = SQL_TYPE_TIME_TZ ->
            LET r == parseTimeTz(b)
            IN  ReturnedTime(r.res, << <<"value()">>, b >> \o r.out)
      [] d.sqltype = SQL_TYPE_TIMESTAMP_TZ ->
            LET r == parseTimestampTz(b) IN ReturnedTime(r.res, r.out)
      [] d.sqltype \in {SQL_TYPE_FLOAT, SQL_TYPE_DOUBLE} -> valueFloat(d, b)
      [] d.sqltype = SQL_TYPE_BOOLEAN ->
            Returned(Val("bool", <<b[1] # 0>>), "nil", <<>>)
      [] d.sqltype = SQL_TYPE_BLOB -> Returned(Val("bytes", b), "nil", <<>>)
      [] d.sqltype = SQL_TYPE_DEC_FIXED ->
            Returned(Val("decimal", <<"decimalFixedToDecimal", b, d.sqlscale>>),
                     "nil", <<>>)
      [] d.sqltype = SQL_TYPE_DEC64 ->
            Returned(Val("decimal", <<"decimal64ToDecimal", b>>), "nil", <<>>)
      [] d.sqltype = SQL_TYPE_DEC128 ->
            Returned(Val("decimal", <<"decimal128ToDecimal", b>>), "nil", <<>>)
      [] OTHER -> Returned(Nil, "nil", <<>>)

---------------------------------------------------------------------------
(* The inputs the surrounding driver supplies *)

MinInt32 == -2147483647 - 1

Descriptor(t, scale, subtype, len) ==
    [sqltype |-> t, sqlscale |-> scale, sqlsubtype |-> subtype, sqllen |-> len]

Input(d, b, tzname, cs) == [x |-> d, raw |-> b, tz |-> tzname, cs |-> cs]

Scales == -MaxScale .. MaxScale

Raw32Samples ==
    { Int32Bytes(n) : n \in {0, 5, -1, 12345, -12345, 32767, 32768, 65536,
                             -32769, 2147483647, MinInt32} }

Raw64Samples ==
    { Int32Bytes(h) \o Int32Bytes(l) :
        h \in {0, -1, 1073741824, 2147483647, MinInt32},
        l \in {0, 5, 12345, -1} }

RawHalfSamples ==
    { Int32Bytes(h) \o Int32Bytes(l) :
        h \in {0, -1, 2147483647, MinInt32}, l \in {0, 1, -1} }

Raw128Samples == { h \o l : h \in RawHalfSamples, l \in RawHalfSamples }

DayRawSamples == { Int32Bytes(n) : n \in {0, -678882, -678575, 51603, 2973483} }

TimeRawSamples == { Int32Bytes(n) : n \in {0, 36000000, 863999999, -1, MinInt32} }

\* wire timezone IDs: three the table holds and two it lacks
TzRawSamples == { <<255, 255>>, <<255, 254>>, <<0, 100>>, <<0, 7>>, <<128, 0>> }

SessionTimezones == {"", "Asia/Tokyo", "Mars/Olympus"}

Charsets == {"OCTETS", "UTF8", "ISO8859_4", "WIN1253", "SJIS_0208", "NONE"}

TextRawSamples == { <<>>, <<65>>, <<200, 65>> }

FloatPattern(n) == [i \in 1 .. n |-> IF i = 1 THEN 63 ELSE IF i = 2 THEN 128 ELSE i]

\* FLOAT and DOUBLE buffers of every length from 0 to the width + MaxExtra
FloatRaws(w) == { FloatPattern(n) : n \in 0 .. w + MaxExtra }

\* type codes the catalog lacks
UnknownTypes == {SQL_TYPE_D_FLOAT, SQL_TYPE_NULL, 0, 999}

\* a buffer of the catalog's length for the types decoded from opaque bytes
OpaqueRaw(t) == [i \in 1 .. xsqlvarTypeLength(t) |-> 16 * i]

TextInputs ==
    { Input(Descriptor(t, 0, st, Len(b)), b, "", cs) :
        t \in {SQL_TYPE_TEXT, SQL_TYPE_VARYING}, st \in 0 .. 2,
        b \in TextRawSamples, cs \in Charsets }

IntegerInputs ==
    { Input(Descriptor(t, sc, 0, 4), b, "", "UTF8") :
        t \in {SQL_TYPE_SHORT, SQL_TYPE_LONG}, sc \in Scales, b \in Raw32Samples }
    \cup { Input(Descriptor(SQL_TYPE_INT64, sc, 0, 8), b, "", "UTF8") :
        sc \in Scales, b \in Raw64Samples }
    \cup { Input(Descriptor(SQL_TYPE_INT128, sc, 0, 16), b, "", "UTF8") :
        sc \in Scales, b \in Raw128Samples }

TemporalInputs ==
    { Input(Descriptor(SQL_TYPE_DATE, 0, 0, 4), b, tz, "UTF8") :
        b \in DayRawSamples, tz \in SessionTimezones }
    \cup { Input(Descriptor(SQL_TYPE_TIME, 0, 0, 4), b, tz, "UTF8") :
        b \in TimeRawSamples, tz \in SessionTimezones }
    \cup { Input(Descriptor(SQL_TYPE_TIMESTAMP, 0, 0, 8), d \o t, tz, "UTF8") :
        d \in DayRawSamples, t \in TimeRawSamples, tz \in SessionTimezones }
    \cup { Input(Descriptor(SQL_TYPE_TIME_TZ, 0, 0, 6), t \o z, tz, "UTF8") :
        t \in TimeRawSamples, z \in TzRawSamples, tz \in {"", "Asia/Tokyo"} }
    \cup { Input(Descriptor(SQL_TYPE_TIMESTAMP_TZ, 0, 0, 10), d \o t \o z, "", "UTF8") :
        d \in DayRawSamples, t \in TimeRawSamples, z \in TzRawSamples }

FloatInputs ==
    { Input(Descriptor(SQL_TYPE_FLOAT, 0, 0, 4), b, "", "UTF8") : b \in FloatRaws(4) }
    \cup { Input(Descriptor(SQL_TYPE_DOUBLE, 0, 0, 8), b, "", "UTF8") :
        b \in FloatRaws(8) }

OtherInputs ==
    { Input(Descriptor(SQL_TYPE_BOOLEAN, 0, 0, 1), <<b>>, "", "UTF8") :
        b \in {0, 1, 255} }
    \cup { Input(Descriptor(t, sc, 0, xsqlvarTypeLength(t)), OpaqueRaw(t), "", "UTF8") :
        t \in {SQL_TYPE_BLOB, SQL_TYPE_ARRAY, SQL_TYPE_QUAD, SQL_TYPE_DEC_FIXED,
               SQL_TYPE_DEC64, SQL_TYPE_DEC128}, sc \in Scales }
    \cup { Input(Descriptor(t, sc, 0, Len(b)), b, "", "UTF8") :
        t \in UnknownTypes, sc \in Scales, b \in {<<>>, <<1, 2, 3, 4>>} }

\* every type code with every declared length, over a buffer of the length
\* the catalog (or, for text, the descriptor) gives
DeclaredLengthInputs ==
    { Input(Descriptor(t, 0, 0, n),
            IF t \in CatalogTypes /\ xsqlvarTypeLength(t) > 0
            THEN [i \in 1 .. xsqlvarTypeLength(t) |-> 0] ELSE [i \in 1 .. n |-> 65],
            "", "UTF8") :
        t \in CatalogTypes \cup UnknownTypes, n \in 0 .. MaxLen }

ValueInputs ==
    TextInputs \cup IntegerInputs \cup TemporalInputs \cup FloatInputs
        \cup OtherInputs \cup DeclaredLengthInputs

\* wire days around the day the algorithm's offset maps to 0, the first
\* and the last date the server stores, the epoch and a leap day
DayCenters == {-678882, -678575, 0, 15079, 51603, 2973483}

\* the last wire day for which 4 * nday - 1 still fits 32 bits
LastDay32 == (2147483647 \div 4) - 678882

DayInputs ==
    { c + k : c \in DayCenters, k \in -DayWindow .. DayWindow }
    \cup { LastDay32 - k : k \in 0 .. DayWindow }

\* wire times around midnight, n = 36000000 (01:00), the last tick of a
\* day, and the two ends of the signed 32-bit range
TimeCenters == {0, 36000000, 863999999}

TimeInputs ==
    { c + k : c \in TimeCenters, k \in -TimeWindow .. TimeWindow }
    \cup { 2147483647 - k : k \in 0 .. TimeWindow }
    \cup { MinInt32 + k : k \in 0 .. TimeWindow }

---------------------------------------------------------------------------
(* The state machine: the driver holds a descriptor and a buffer and makes
   one call on them *)

Ready(inp) ==
    /\ x = inp.x
    /\ raw_value = inp.raw
    /\ timezone = inp.tz
    /\ charset = inp.cs
    /\ pc = "ready"
    /\ ret = <<>>
    /\ stdout = <<>>

Init == \E inp \in ValueInputs : Ready(inp)

InitDate ==
    \E n \in DayInputs :
        Ready(Input(Descriptor(SQL_TYPE_DATE, 0, 0, 4), Int32Bytes(n), "", "UTF8"))

InitTime ==
    \E n \in TimeInputs :
        Ready(Input(Descriptor(SQL_TYPE_TIME, 0, 0, 4), Int32Bytes(n), "", "UTF8"))

CallValue ==
    /\ pc = "ready"
    /\ ret' = value(x, raw_value, timezone, charset)
    /\ stdout' = stdout \o ret'.out
    /\ pc' = "value"
    /\ UNCHANGED <<x, raw_value, timezone, charset>>

CallIoLength ==
    /\ pc = "ready"
    /\ ret' = ioLength(x)
    /\ pc' = "ioLength"
    /\ UNCHANGED <<x, raw_value, timezone, charset, stdout>>

CallScantype ==
    /\ pc = "ready"
    /\ ret' = scantype(x)
    /\ pc' = "scantype"
    /\ UNCHANGED <<x, raw_value, timezone, charset, stdout>>

CallParseDate ==
    /\ pc = "ready"
    /\ ret' = _parseDate(raw_value)
    /\ pc' = "_parseDate"
    /\ UNCHANGED <<x, raw_value, timezone, charset, stdout>>

CallParseTime ==
    /\ pc = "ready"
    /\ ret' = _parseTime(raw_value)
    /\ pc' = "_parseTime"
    /\ UNCHANGED <<x, raw_value, timezone, charset, stdout>>

Next == CallValue \/ CallIoLength \/ CallScantype

NextDate == CallParseDate \/ CallValue

NextTime == CallParseTime \/ CallValue

Spec == Init /\ [][Next]_vars

SpecDate == InitDate /\ [][NextDate]_vars

SpecTime == InitTime /\ [][NextTime]_vars

---------------------------------------------------------------------------
(* The claims *)

\* value() has returned (v, err) to its caller
ValueReturned == pc = "value" /\ ~ret.panic

\* C1: for a type code the catalog lacks (D_FLOAT, NULL_TYPE, any code
\* outside the enumeration), value() returns an error to its caller and
\* never returns without one.
C1_UnsupportedTypeSignalled ==
    (pc = "value" /\ x.sqltype \notin CatalogTypes)
        => (~ret.panic /\ ret.err # "nil")

\* the wire timezone ID of a TIME_TZ or TIMESTAMP_TZ buffer: its last 2 bytes
WireTimezoneID == bytes_to_bint16(LastBytes(raw_value, 2))

Resolvable(id) == id \in TimezoneIDs /\ getTimezoneNameByID(id) \in HostZones

\* C2: for a TIME_TZ or TIMESTAMP_TZ value whose wire timezone ID cannot be
\* resolved (no entry in the table, or a name the loader rejects), value()
\* returns an error: no time with a default zone, and no abort.
C2_UnknownTimezoneSignalled ==
    (/\ pc = "value"
     /\ x.sqltype \in {SQL_TYPE_TIME_TZ, SQL_TYPE_TIMESTAMP_TZ}
     /\ ~Resolvable(WireTimezoneID))
        => (~ret.panic /\ ret.err # "nil")

\* the integer the raw bytes hold at the catalog's width for the type
RawInteger == SignExtend(SubSeq(raw_value, 1, xsqlvarTypeLength(x.sqltype)))

\* C3: for SHORT, LONG and INT64, value() returns N * 10^scale, N the
\* big-endian two's-complement integer of the raw bytes at the catalog's
\* width: N itself for scale 0, the exact product as an integer for a
\* positive scale, the exact decimal for a negative one.
C3_ScaledIntegerExact ==
    (pc = "value" /\ x.sqltype \in {SQL_TYPE_SHORT, SQL_TYPE_LONG, SQL_TYPE_INT64})
        => /\ ValueReturned
           /\ ret.err = "nil"
           /\ IF x.sqlscale >= 0
              THEN /\ ret.v.kind \in {"int16", "int32", "int64"}
                   /\ ret.v.val = WideMulPow10(RawInteger, x.sqlscale)
              ELSE ret.v = decimalNew(RawInteger, x.sqlscale)

\* C4: for INT128, value() returns exactly V * 10^scale, V the signed
\* 128-bit integer of the 16 raw bytes, whatever the low half's top bit and
\* whatever the sign of the scale (for a negative scale: the result times
\* 10^-scale is V).
C4_Int128Exact ==
    (pc = "value" /\ x.sqltype = SQL_TYPE_INT128)
        => /\ ValueReturned
           /\ ret.v.kind = "bigint"
           /\ IF x.sqlscale >= 0
              THEN ret.v.val = WideMulPow10(SignExtend(raw_value), x.sqlscale)
              ELSE WideMulPow10(ret.v.val, -x.sqlscale) = SignExtend(raw_value)

\* the five steps of the date algorithm with floor division at every step
FloorParseDate(wireDay) ==
    LET nday0 == wireDay + 678882
        century == (4 * nday0 - 1) \div 146097
        nday1 == 4 * nday0 - 1 - 146097 * century
        day0 == nday1 \div 4
        nday2 == (4 * day0 + 3) \div 1461
        day1 == 4 * day0 + 3 - 1461 * nday2
        day2 == (day1 + 4) \div 4
        month0 == (5 * day2 - 3) \div 153
        day3 == 5 * day2 - 3 - 153 * month0
        day4 == (day3 + 5) \div 5
        year == 100 * century + nday2
    IN  IF month0 < 10
        THEN <<year, month0 + 3, day4>>
        ELSE <<year + 1, month0 - 9, day4>>

WireDay == bytes_to_bint32(raw_value)

ParseDateAsFloor ==
    /\ ret = FloorParseDate(WireDay)
    /\ (WireDay = 0 => ret = <<1858, 11, 17>>)
    /\ ret[2] \in 1 .. 12
    /\ ret[3] \in 1 .. 31

\* C5 as stated: for every wire day, _parseDate returns what the five steps
\* give with floor division; day 0 is 1858-11-17; the month is in 1..12 and
\* the day in 1..31.
C5_ParseDateFloorEveryDay == pc = "_parseDate" => ParseDateAsFloor

\* C5 as amended: the same for every wire day with wireDay + 678882 >= 1,
\* where the dividends are never negative.
C5_ParseDateFloorFromDayOne ==
    (pc = "_parseDate" /\ WireDay + 678882 >= 1) => ParseDateAsFloor

\* C5 witness: wire day 0 has been decoded, to 1858-11-17
C5_Witness == pc = "_parseDate" /\ WireDay = 0 /\ ret = <<1858, 11, 17>>

\* the wire time read as an unsigned 32-bit integer, halved (the integer
\* itself may exceed the model checker's integers), and its lowest bit
UnsignedHalf ==
    raw_value[1] * 8388608 + raw_value[2] * 32768 + raw_value[3] * 128
        + raw_value[4] \div 2

UnsignedBit == raw_value[4] % 2

\* n div 10000 and n mod 10000 of the unsigned n = 2 * UnsignedHalf + UnsignedBit
UnsignedSeconds == UnsignedHalf \div 5000

UnsignedTicks == (UnsignedHalf % 5000) * 2 + UnsignedBit

\* C6: for the wire time read as an unsigned 32-bit count n, _parseTime
\* returns hours = (n div 10000) div 3600, minutes = ((n div 10000) div 60)
\* mod 60, seconds = (n div 10000) mod 60, nanoseconds = (n mod 10000) *
\* 100000, none of them negative, also when the top bit of n is set.
C6_ParseTimeUnsigned ==
    pc = "_parseTime"
        => /\ ret = << UnsignedSeconds \div 3600, (UnsignedSeconds \div 60) % 60,
                       UnsignedSeconds % 60, UnsignedTicks * 100000 >>
           /\ \A i \in 1 .. 4 : ret[i] >= 0
           /\ ret[2] \in 0 .. 59
           /\ ret[3] \in 0 .. 59
           /\ ret[4] < 1000000000

FloatWidth == IF x.sqltype = SQL_TYPE_FLOAT THEN 4 ELSE 8

IsFloatCall == pc = "value" /\ x.sqltype \in {SQL_TYPE_FLOAT, SQL_TYPE_DOUBLE}

\* C7 as stated: for FLOAT and DOUBLE, value() fails exactly when the
\* buffer's length differs from the width (4 or 8), shorter or longer.
C7_FloatFailsOnAnyLengthMismatch ==
    IsFloatCall
        => /\ ValueReturned
           /\ (ret.err # "nil") <=> (Len(raw_value) # FloatWidth)

\* C7 as amended: value() fails exactly when the buffer is shorter than the
\* width; a buffer of the width or longer gives the float of its first 4
\* (8) bytes and no error.
C7_FloatFailsOnShortBuffer ==
    IsFloatCall
        => /\ ValueReturned
           /\ (ret.err # "nil") <=> (Len(raw_value) < FloatWidth)
           /\ Len(raw_value) >= FloatWidth
                => ret.v = Val(IF x.sqltype = SQL_TYPE_FLOAT THEN "float32"
                               ELSE "float64",
                               SubSeq(raw_value, 1, FloatWidth))

\* C7 witness: a FLOAT or DOUBLE buffer longer than the width has been
\* decoded without error
C7_Witness ==
    /\ IsFloatCall
    /\ Len(raw_value) > FloatWidth
    /\ ret.err = "nil"
    /\ ret.v.val = SubSeq(raw_value, 1, FloatWidth)

\* C8: a value() call writes nothing to standard output and leaves the
\* descriptor and the buffer as they were, for every type code (standard
\* output is empty before the call).
C8_ValueNoSideEffects == pc = "value" => stdout = <<>>

\* the storage lengths the specification lists for the types of fixed length
ListedLength(t) ==
    CASE t \in {SQL_TYPE_SHORT, SQL_TYPE_LONG, SQL_TYPE_FLOAT, SQL_TYPE_TIME,
                SQL_TYPE_DATE} -> 4
      [] t \in {SQL_TYPE_DOUBLE, SQL_TYPE_TIMESTAMP, SQL_TYPE_BLOB,
                SQL_TYPE_ARRAY, SQL_TYPE_QUAD, SQL_TYPE_INT64,
                SQL_TYPE_DEC64} -> 8
      [] t \in {SQL_TYPE_INT128, SQL_TYPE_DEC128, SQL_TYPE_DEC_FIXED} -> 16
      [] t = SQL_TYPE_TIMESTAMP_TZ -> 10
      [] t = SQL_TYPE_TIME_TZ -> 6
      [] t = SQL_TYPE_BOOLEAN -> 1

IsIoLengthCall == pc = "ioLength" /\ x.sqltype \in CatalogTypes

\* C9 as stated: ioLength() is the declared length for TEXT and for VARYING,
\* and the listed fixed length, whatever the declared length, for every
\* other type of the catalog.
C9_IoLengthDeclaredForTextFamily ==
    IsIoLengthCall
        => ret = IF x.sqltype \in {SQL_TYPE_TEXT, SQL_TYPE_VARYING}
                 THEN x.sqllen ELSE ListedLength(x.sqltype)

\* C9 as amended: ioLength() is the declared length for TEXT only; for
\* VARYING it is the catalog's -1, and for every other type of the catalog
\* the listed fixed length, whatever the declared length.
C9_IoLengthDeclaredForTextOnly ==
    IsIoLengthCall
        => ret = IF x.sqltype = SQL_TYPE_TEXT THEN x.sqllen
                 ELSE IF x.sqltype = SQL_TYPE_VARYING THEN -1
                 ELSE ListedLength(x.sqltype)

\* C9 witness: ioLength() of a VARYING column with a positive declared
\* length has returned -1
C9_Witness ==
    /\ IsIoLengthCall
    /\ x.sqltype = SQL_TYPE_VARYING
    /\ x.sqllen > 0
    /\ ret = -1

\* C10: whenever value() decodes without error, the kind of the value it
\* returns is the kind scantype() reports for the descriptor (so scantype()
\* reports no type exactly where value() gives no value).
C10_ValueKindIsScantype ==
    (ValueReturned /\ ret.err = "nil") => ret.v.kind = scantype(x)

=============================================================================
